---- MODULE Spec2Model ----
(***************************************************************************)
(* Model of jupyter_server/utils.py: the async/sync execution bridge       *)
(* (ensure_async, run_sync), the path mapping pair (to_os_path,            *)
(* to_api_path) and the deprecated decorator.                              *)
(*                                                                         *)
(* Awaitables are coroutine objects.  A coroutine body runs `steps`        *)
(* segments separated by bare suspensions (await asyncio.sleep(0)) and     *)
(* then returns a value or raises.  Python's coroutine protocol is         *)
(* modelled by Send and Await, asyncio's loop by a FIFO ready queue.       *)
(* Paths are sequences of one-character strings, os.sep is "/" (posix).    *)
(***************************************************************************)
EXTENDS Integers, Sequences, FiniteSets, TLC

\* ------------------------------------------------------------- bounds
MaxSteps == 2
MaxCalls == 3
MaxLiveCalls == 1
MaxRootLen == 2
MaxPathLen == 4
MaxInvocations == 3

VARIABLES
    body,     \* body[c]: the code of coroutine c: [steps, out]
    co,       \* co[c]: the coroutine object's state: [st, pos]
    starts,   \* starts[c]: how often c's body began executing from its first line
    execs,    \* execs[c]: how many body segments (side effects) of c were executed
    ready,    \* the current event loop's FIFO of ready handles
    tasks,    \* asyncio Tasks created so far, in creation order
    calls,    \* bridge calls made so far, in call order (results recorded)
    loop,     \* state of the thread's current event loop
    loopId,   \* identity of the current event loop (0: none was ever set)
    pm,       \* a path mapping round trip: [root, orig, dir, mid, back, stage]
    dep       \* a deprecated callable: its decorator, the warnings module, its invocations

bridgeVars == <<body, co, starts, execs, ready, tasks, calls, loop, loopId>>
vars == <<body, co, starts, execs, ready, tasks, calls, loop, loopId, pm, dep>>

\* ------------------------------------------------------------- values
\* the coroutine object the calls are made on; calls on different coroutine
\* objects meet only in the ready queue
Coros == {1}
PlainVals == {7, 42}

Plain(v) == [tag |-> "plain", id |-> v]
Coro(c) == [tag |-> "coro", id |-> c]
TaskH(t) == [tag |-> "task", id |-> t]
NoVal == [tag |-> "none", id |-> 0]

Err(cls, msg) == [cls |-> cls, msg |-> msg]
NoErr == Err("", "")
ReuseMsg == "cannot reuse already awaited coroutine"
RunningMsg == "This event loop is already running"
ErrReuse == Err("RuntimeError", ReuseMsg)
ErrRunning == Err("RuntimeError", RunningMsg)
ErrBeingAwaited == Err("RuntimeError", "coroutine is being awaited already")
ErrClosed == Err("RuntimeError", "Event loop is closed")
ErrRuntimeOther == Err("RuntimeError", "boom")
ErrValue == Err("ValueError", "boom")
ErrUnbound == Err("UnboundLocalError", "local variable 'result' referenced before assignment")

Return(v) == [kind |-> "return", val |-> v, err |-> NoErr]
Raise(e) == [kind |-> "raise", val |-> NoVal, err |-> e]
Yield == [kind |-> "yield", val |-> NoVal, err |-> NoErr]
NoRes == [kind |-> "none", val |-> NoVal, err |-> NoErr]

BodyErrors == {ErrReuse, ErrRunning, ErrRuntimeOther, ErrValue}
Outcomes == {Return(Plain(v)) : v \in PlainVals} \cup {Raise(e) : e \in BodyErrors}
Bodies == [steps : 1..MaxSteps, out : Outcomes]
Inputs == {Plain(v) : v \in PlainVals} \cup {Coro(c) : c \in Coros}

\* inspect.isawaitable(obj)
isawaitable(x) == x.tag = "coro"

TaskJob(t) == [kind |-> "task", id |-> t]
CallJob(i) == [kind |-> "call", id |-> i]
Range(s) == {s[k] : k \in DOMAIN s}

World == [body |-> body, co |-> co, starts |-> starts, execs |-> execs,
          ready |-> ready, tasks |-> tasks, calls |-> calls,
          loop |-> loop, loopId |-> loopId]

SetWorld(w) ==
    /\ body' = w.body
    /\ co' = w.co
    /\ starts' = w.starts
    /\ execs' = w.execs
    /\ ready' = w.ready
    /\ tasks' = w.tasks
    /\ calls' = w.calls
    /\ loop' = w.loop
    /\ loopId' = w.loopId
    /\ UNCHANGED <<pm, dep>>

\* ------------------------------------------------ coroutine protocol
\* a coroutine object that runs its body again when driven after its end
SendRestarting(w, c) ==
    LET s == IF w.co[c].st = "closed" THEN [st |-> "created", pos |-> 0] ELSE w.co[c]
        fin == s.pos + 1 = w.body[c].steps
        w1 == [w EXCEPT !.co[c] = [st |-> IF fin THEN "closed" ELSE "suspended",
                                   pos |-> s.pos + 1],
                        !.starts[c] = IF s.st = "created" THEN @ + 1 ELSE @,
                        !.execs[c] = @ + 1]
    IN [w |-> w1, ev |-> IF fin THEN w.body[c].out ELSE Yield, own |-> fin]

\* coro.send(None): run the next segment of c's body.  own: the sender
\* received the body's own outcome (not the error of an exhausted object).
Send(w, c) ==
    LET s == w.co[c] IN
    IF s.st = "closed"
    THEN [w |-> w, ev |-> Raise(ErrReuse), own |-> FALSE]
    ELSE LET fin == s.pos + 1 = w.body[c].steps
             w1 == [w EXCEPT !.co[c] = [st |-> IF fin THEN "closed" ELSE "suspended",
                                        pos |-> s.pos + 1],
                             !.starts[c] = IF s.st = "created" THEN @ + 1 ELSE @,
                             !.execs[c] = @ + 1]
         IN [w |-> w1, ev |-> IF fin THEN w.body[c].out ELSE Yield, own |-> fin]

\* `await obj` on a coroutine object: a coroutine suspended in another
\* awaiter is refused, otherwise its first segment is run.
Await(w, c) ==
    IF w.co[c].st = "suspended"
    THEN [w |-> w, ev |-> Raise(ErrBeingAwaited), own |-> FALSE]
    ELSE Send(w, c)

\* ------------------------------------------------------ call records
\* what a call can observe of its surroundings
Snap(w) == [loop |-> w.loop, loopId |-> w.loopId, ready |-> w.ready,
            ntasks |-> Len(w.tasks), execs |-> w.execs]

NewCall(w, op, x) ==
    [op |-> op, arg |-> x, done |-> FALSE, res |-> NoRes, own |-> FALSE,
     cst |-> IF isawaitable(x) THEN w.co[x.id].st ELSE "plain",
     pre |-> Snap(w), post |-> Snap(w),
     hPending |-> FALSE, hQueued |-> FALSE]

\* the call returns or raises: record the result and the state at that moment
Finish(w, i, res, own) ==
    LET h == res.kind = "return" /\ res.val.tag = "task"
        t == res.val.id
    IN [w EXCEPT !.calls[i] =
          [@ EXCEPT !.done = TRUE, !.res = res, !.own = own,
                    !.post = Snap(w),
                    !.hPending = h /\ w.tasks[t].state = "pending",
                    !.hQueued = h /\ TaskJob(t) \in Range(w.ready)
                                  /\ w.tasks[t].loop = w.loopId]]

\* ------------------------------------------------------- ensure_async
\* the except clause of ensure_async, applied to what `await obj` gave
EnsureAsyncResult(ev, obj) ==
    IF ev.kind = "raise" /\ ev.err.cls = "RuntimeError" /\ ev.err.msg = ReuseMsg
    THEN Return(obj)
    ELSE ev

\* one resumption of call i of ensure_async with what the awaitable gave
EnsureAsyncStep(i, s) ==
    IF s.ev.kind = "yield"
    THEN [s.w EXCEPT !.ready = Append(@, CallJob(i))]
    ELSE Finish(s.w, i, EnsureAsyncResult(s.ev, s.w.calls[i].arg), s.own)

\* ensure_async(obj), up to its first suspension
ensure_async(w, x) ==
    LET i == Len(w.calls) + 1
        w0 == [w EXCEPT !.calls = Append(@, NewCall(w, "ensure_async", x))]
    IN IF isawaitable(x)
       THEN EnsureAsyncStep(i, Await(w0, x.id))
       ELSE Finish(w0, i, Return(x), FALSE)

\* ---------------------------------------------------------- the loop
create_task(w, c) == [coro |-> c, state |-> "pending", res |-> NoRes, own |-> FALSE,
                  loop |-> w.loopId]

\* Task.__step
TaskStep(t, s) ==
    IF s.ev.kind = "yield"
    THEN [s.w EXCEPT !.ready = Append(@, TaskJob(t))]
    ELSE [s.w EXCEPT !.tasks[t] = [@ EXCEPT !.state = "done", !.res = s.ev, !.own = s.own]]

\* run one ready handle
RunJob(w, j) ==
    IF j.kind = "task"
    THEN TaskStep(j.id, Send(w, w.tasks[j.id].coro))
    ELSE EnsureAsyncStep(j.id, Send(w, w.calls[j.id].arg.id))

RunHead(w) == RunJob([w EXCEPT !.ready = Tail(@)], Head(w.ready))

\* BaseEventLoop._run_once: run the handles that are ready now
RECURSIVE run_once(_, _)
run_once(w, n) == IF n = 0 THEN w ELSE run_once(RunHead(w), n - 1)

\* run_forever until task t is done; its done-callback stops the loop at the
\* end of the following iteration
RECURSIVE run_forever(_, _)
run_forever(w, t) ==
    LET w1 == run_once(w, Len(w.ready)) IN
    IF w1.tasks[t].state = "done"
    THEN run_once(w1, Len(w1.ready))
    ELSE run_forever(w1, t)

\* asyncio.ensure_future(coro): a Task on the current loop, its first step scheduled
ensure_future(w, c) ==
    [w EXCEPT !.tasks = Append(@, create_task(w, c)),
              !.ready = Append(@, TaskJob(Len(w.tasks) + 1))]

\* loop.run_until_complete(coro)
run_until_complete(w, c) ==
    IF w.loop = "closed"
    THEN [w |-> w, ev |-> Raise(ErrClosed), own |-> FALSE]
    ELSE IF w.loop = "running"
    THEN [w |-> w, ev |-> Raise(ErrRunning), own |-> FALSE]
    ELSE LET t == Len(w.tasks) + 1
             w1 == run_forever(ensure_future([w EXCEPT !.loop = "running"], c), t)
         IN [w |-> [w1 EXCEPT !.loop = "idle"], ev |-> w1.tasks[t].res,
             own |-> w1.tasks[t].own]

\* ------------------------------------------------------------ run_sync
\* wrapped() without the loop.is_closed() check
ChooseLoopNoClosedCheck(w) ==
    IF w.loop = "none"
    THEN [w EXCEPT !.loop = "idle", !.loopId = @ + 1, !.ready = <<>>]
    ELSE w

\* wrapped(), first half: find the current loop or create and install one
ChooseLoop(w) ==
    IF w.loop = "none" \/ w.loop = "closed"
    THEN [w EXCEPT !.loop = "idle", !.loopId = @ + 1, !.ready = <<>>]
    ELSE w

\* the except clause re-raising every RuntimeError
RunSyncResultNoFallback(i, c, d) == Finish(d.w, i, d.ev, d.own)

\* the fallback returning a Task whose first step was never scheduled
RunSyncResultUnscheduled(i, c, d) ==
    IF d.ev.kind = "return"
    THEN Finish(d.w, i, d.ev, d.own)
    ELSE IF d.ev.err.cls = "RuntimeError"
         THEN IF d.ev.err.msg = RunningMsg
              THEN Finish([d.w EXCEPT !.tasks = Append(@, create_task(d.w, c))], i,
                          Return(TaskH(Len(d.w.tasks) + 1)), d.own)
              ELSE Finish(d.w, i, Raise(ErrUnbound), d.own)
         ELSE Finish(d.w, i, d.ev, d.own)

\* wrapped(), second half: the try/except around run_until_complete
RunSyncResult(i, c, d) ==
    IF d.ev.kind = "return"
    THEN Finish(d.w, i, d.ev, d.own)
    ELSE IF d.ev.err.cls = "RuntimeError"
         THEN IF d.ev.err.msg = RunningMsg
              THEN Finish(ensure_future(d.w, c), i, Return(TaskH(Len(d.w.tasks) + 1)), d.own)
              ELSE Finish(d.w, i, Raise(ErrUnbound), d.own)
         ELSE Finish(d.w, i, d.ev, d.own)

\* run_sync looking for a loop before it looks at its input
run_sync_loop_first(w, x) ==
    LET i == Len(w.calls) + 1
        w0 == [w EXCEPT !.calls = Append(@, NewCall(w, "run_sync", x))]
    IN IF ~isawaitable(x)
       THEN Finish(ChooseLoop(w0), i, Return(x), FALSE)
       ELSE RunSyncResult(i, x.id, run_until_complete(ChooseLoop(w0), x.id))

run_sync(w, x) ==
    LET i == Len(w.calls) + 1
        w0 == [w EXCEPT !.calls = Append(@, NewCall(w, "run_sync", x))]
    IN IF ~isawaitable(x)
       THEN Finish(w0, i, Return(x), FALSE)
       ELSE RunSyncResult(i, x.id, run_until_complete(ChooseLoop(w0), x.id))

\* -------------------------------------------------------- path mapping
Sep == "/"
Alphabet == {"/", "a", "b"}
Strs(n) == UNION {[1..k -> Alphabet] : k \in 0..n}

\* str.startswith
startswith(s, pre) == Len(pre) <= Len(s) /\ SubSeq(s, 1, Len(pre)) = pre

\* str.strip(ch)
RECURSIVE lstrip(_, _)
lstrip(s, ch) == IF s # <<>> /\ Head(s) = ch THEN lstrip(Tail(s), ch) ELSE s

RECURSIVE rstrip(_, _)
rstrip(s, ch) ==
    IF s # <<>> /\ s[Len(s)] = ch THEN rstrip(SubSeq(s, 1, Len(s) - 1), ch) ELSE s

strip(s, ch) == rstrip(lstrip(s, ch), ch)

\* str.split(ch)
RECURSIVE split(_, _)
split(s, ch) ==
    IF \E k \in DOMAIN s : s[k] = ch
    THEN LET k == CHOOSE k \in DOMAIN s : s[k] = ch /\ \A m \in 1..(k - 1) : s[m] # ch
         IN <<SubSeq(s, 1, k - 1)>> \o split(SubSeq(s, k + 1, Len(s)), ch)
    ELSE <<s>>

\* [p for p in parts if p != '']
NonEmpty(parts) == SelectSeq(parts, LAMBDA p : p # <<>>)

\* ch.join(parts)
RECURSIVE join(_, _)
join(parts, ch) ==
    IF parts = <<>> THEN <<>>
    ELSE IF Len(parts) = 1 THEN Head(parts)
    ELSE Head(parts) \o <<ch>> \o join(Tail(parts), ch)

\* posixpath.join(a, *p)
RECURSIVE os_path_join(_, _)
os_path_join(path, parts) ==
    IF parts = <<>> THEN path
    ELSE LET b == Head(parts)
             nxt == IF startswith(b, <<Sep>>) THEN b
                    ELSE IF path = <<>> \/ path[Len(path)] = Sep THEN path \o b
                    ELSE path \o <<Sep>> \o b
         IN os_path_join(nxt, Tail(parts))

to_os_path(path, root) ==
    os_path_join(root, NonEmpty(split(strip(path, "/"), "/")))

\* to_api_path that leaves the root in place
to_api_path_keeping_root(os_path, root) ==
    join(NonEmpty(split(strip(os_path, Sep), Sep)), "/")

to_api_path(os_path, root) ==
    LET p == IF startswith(os_path, root)
             THEN SubSeq(os_path, Len(root) + 1, Len(os_path))
             ELSE os_path
    IN join(NonEmpty(split(strip(p, Sep), Sep)), "/")

PmNone == [root |-> <<>>, orig |-> <<>>, dir |-> "none", mid |-> <<>>, back |-> <<>>,
           stage |-> 0]

\* ---------------------------------------------------------- deprecated
None == <<>>
Some(x) == <<x>>
FuncName == "old_func"
\* the decorated callable
func(x) == (2 * x) + 1

\* deprecated.__call__: the message built when the callable is decorated
Msg(d) ==
    LET alt_msg == IF d.alt_func # None
                   THEN <<" Use ", d.alt_func[1], " instead.">> ELSE <<>>
        rmv_msg == IF d.removed_version # None
                   THEN <<" and will be removed in version ", d.removed_version[1]>>
                   ELSE <<>>
    IN <<"Function ", FuncName, " is deprecated">> \o rmv_msg \o <<".">> \o alt_msg

\* warnings.simplefilter(action, DeprecationWarning): to the front, no duplicate
simplefilter(filters, action) ==
    <<action>> \o SelectSeq(filters, LAMBDA a : a # action)

\* warnings.warn_explicit(msg, category=DeprecationWarning, ...) with no registry
warn_explicit(d, msg) ==
    LET action == IF d.filters = <<>> THEN "default" ELSE Head(d.filters) IN
    CASE action = "ignore" -> [d |-> d, raised |-> FALSE]
      [] action = "error" -> [d |-> d, raised |-> TRUE]
      [] action = "once" ->
           [d |-> IF msg \in d.once THEN d
                  ELSE [d EXCEPT !.once = @ \cup {msg}, !.shown = Append(@, msg)],
            raised |-> FALSE]
      [] OTHER -> [d |-> [d EXCEPT !.shown = Append(@, msg)], raised |-> FALSE]

DepCall(d, arg) == [d EXCEPT !.ncalled = @ + 1,
                             !.rets = Append(@, [arg |-> arg, res |-> Return(Plain(func(arg)))])]
DepRaise(d, arg, msg) ==
    [d EXCEPT !.rets = Append(@, [arg |-> arg,
                                  res |-> Raise([cls |-> "DeprecationWarning", msg |-> msg])])]

\* wrapped() without warnings.simplefilter('always', DeprecationWarning)
wrapped_no_filter(d, arg) ==
    IF d.behavior = "warn"
    THEN LET w == warn_explicit(d, Msg(d))
         IN IF w.raised THEN DepRaise(w.d, arg, Msg(d)) ELSE DepCall(w.d, arg)
    ELSE IF d.behavior = "raise"
    THEN DepRaise(d, arg, Msg(d))
    ELSE DepCall(d, arg)

\* deprecated.__call__.wrapped(*args)
wrapped(d, arg) ==
    IF d.behavior = "warn"
    THEN LET w == warn_explicit([d EXCEPT !.filters = simplefilter(@, "always")], Msg(d))
         IN IF w.raised THEN DepRaise(w.d, arg, Msg(d)) ELSE DepCall(w.d, arg)
    ELSE IF d.behavior = "raise"
    THEN DepRaise(d, arg, Msg(d))
    ELSE DepCall(d, arg)

DepNone == [alt_func |-> None, behavior |-> "none", removed_version |-> None,
            filters |-> <<>>, once |-> {}, shown |-> <<>>, ncalled |-> 0, rets |-> <<>>]

\* ------------------------------------------------------------ actions
Init ==
    /\ body \in [Coros -> Bodies]
    /\ co = [c \in Coros |-> [st |-> "created", pos |-> 0]]
    /\ starts = [c \in Coros |-> 0]
    /\ execs = [c \in Coros |-> 0]
    /\ ready = <<>>
    /\ tasks = <<>>
    /\ calls = <<>>
    /\ loop \in {"none", "idle"}
    /\ loopId = IF loop = "none" THEN 0 ELSE 1
    /\ pm = PmNone
    /\ dep = DepNone

\* a coroutine running on the loop calls `await ensure_async(x)`
EnsureAsyncCall ==
    /\ loop = "running"
    /\ Len(calls) < MaxCalls
    /\ \E x \in Inputs : SetWorld(ensure_async(World, x))

\* run_sync(x), from plain code or from work running on the loop
RunSyncCall ==
    /\ Len(calls) < MaxCalls
    /\ \E x \in Inputs : SetWorld(run_sync(World, x))

\* the running loop runs its next ready handle
LoopStep ==
    /\ loop = "running"
    /\ ready # <<>>
    /\ SetWorld(RunHead(World))

\* the application starts, stops and closes its loop
StartLoop ==
    /\ loop = "idle"
    /\ loop' = "running"
    /\ UNCHANGED <<body, co, starts, execs, ready, tasks, calls, loopId, pm, dep>>

StopLoop ==
    /\ loop = "running"
    /\ loop' = "idle"
    /\ UNCHANGED <<body, co, starts, execs, ready, tasks, calls, loopId, pm, dep>>

CloseLoop ==
    /\ loop = "idle"
    /\ loop' = "closed"
    /\ ready' = <<>>
    /\ UNCHANGED <<body, co, starts, execs, tasks, calls, loopId, pm, dep>>

Next ==
    \/ EnsureAsyncCall
    \/ RunSyncCall
    \/ LoopStep
    \/ StartLoop
    \/ StopLoop
    \/ CloseLoop

Spec == Init /\ [][Next]_vars

\* -------------------------------------------- path mapping round trips
InitPath ==
    /\ body = [c \in Coros |-> [steps |-> 1, out |-> Return(Plain(7))]]
    /\ co = [c \in Coros |-> [st |-> "created", pos |-> 0]]
    /\ starts = [c \in Coros |-> 0]
    /\ execs = [c \in Coros |-> 0]
    /\ ready = <<>>
    /\ tasks = <<>>
    /\ calls = <<>>
    /\ loop = "none"
    /\ loopId = 0
    /\ dep = DepNone
    /\ \E r \in Strs(MaxRootLen), s \in Strs(MaxPathLen), d \in {"api", "os"} :
         pm = [root |-> r, orig |-> s, dir |-> d, mid |-> <<>>, back |-> <<>>, stage |-> 0]

ToOsPath ==
    /\ \/ /\ pm.dir = "api" /\ pm.stage = 0
          /\ pm' = [pm EXCEPT !.mid = to_os_path(pm.orig, pm.root), !.stage = 1]
       \/ /\ pm.dir = "os" /\ pm.stage = 1
          /\ pm' = [pm EXCEPT !.back = to_os_path(pm.mid, pm.root), !.stage = 2]
    /\ UNCHANGED <<bridgeVars, dep>>

ToApiPath ==
    /\ \/ /\ pm.dir = "os" /\ pm.stage = 0
          /\ pm' = [pm EXCEPT !.mid = to_api_path(pm.orig, pm.root), !.stage = 1]
       \/ /\ pm.dir = "api" /\ pm.stage = 1
          /\ pm' = [pm EXCEPT !.back = to_api_path(pm.mid, pm.root), !.stage = 2]
    /\ UNCHANGED <<bridgeVars, dep>>

NextPath == ToOsPath \/ ToApiPath

SpecPath == InitPath /\ [][NextPath]_vars

\* ------------------------------------------- the deprecated decorator
DepArgs == {0, 1}
UserFilters == {"ignore", "error", "once", "default"}

InitDep ==
    /\ body = [c \in Coros |-> [steps |-> 1, out |-> Return(Plain(7))]]
    /\ co = [c \in Coros |-> [st |-> "created", pos |-> 0]]
    /\ starts = [c \in Coros |-> 0]
    /\ execs = [c \in Coros |-> 0]
    /\ ready = <<>>
    /\ tasks = <<>>
    /\ calls = <<>>
    /\ loop = "none"
    /\ loopId = 0
    /\ pm = PmNone
    /\ \E a \in {None, Some("new_func")}, b \in {"warn", "raise", "other"},
          v \in {None, Some("2.0")} :
         dep = [DepNone EXCEPT !.alt_func = a, !.behavior = b, !.removed_version = v]

\* the decorated callable is invoked
Invoke ==
    /\ Len(dep.rets) < MaxInvocations
    /\ \E arg \in DepArgs : dep' = wrapped(dep, arg)
    /\ UNCHANGED <<bridgeVars, pm>>

\* the application configures the warnings module between invocations
UserFilter ==
    /\ Len(dep.rets) < MaxInvocations
    /\ \E a \in UserFilters : dep' = [dep EXCEPT !.filters = simplefilter(@, a)]
    /\ UNCHANGED <<bridgeVars, pm>>

NextDep == Invoke \/ UserFilter

SpecDep == InitDep /\ [][NextDep]_vars

\* the same program with a smaller budget of calls, and a loop that, while it
\* is running, does run its ready handles
LiveBudget == Len(calls) < MaxLiveCalls

LiveNext ==
    \/ (LiveBudget /\ EnsureAsyncCall)
    \/ (LiveBudget /\ RunSyncCall)
    \/ LoopStep
    \/ StartLoop
    \/ StopLoop
    \/ CloseLoop

LiveSpec == Init /\ [][LiveNext]_vars /\ WF_vars(LoopStep)

\* ------------------------------------------------------------- claims
BodyOut(k) == body[k.arg.id].out
Classified(e) == e.cls = "RuntimeError" /\ e.msg \in {ReuseMsg, RunningMsg}
OnCoro(k) == k.done /\ isawaitable(k.arg)
Reentrant(k) == k.op = "run_sync" /\ OnCoro(k) /\ k.pre.loop = "running"

\* C1 (as claimed): a call that drove a computation to a failure E that is
\* neither classified condition ends by raising exactly E, for ensure_async
\* and for run_sync alike.
C1_UnclassifiedErrorPropagates ==
    \A i \in DOMAIN calls :
        LET k == calls[i] IN
        (OnCoro(k) /\ k.own /\ BodyOut(k).kind = "raise" /\ ~Classified(BodyOut(k).err))
            => k.res = BodyOut(k)

\* C2 (as claimed): after a first ensure_async call resolved a computation to
\* r, a second ensure_async call on that completed computation returns r again.
C2_SecondResolutionReturnsResult ==
    \A i, j \in DOMAIN calls :
        (/\ i < j
         /\ calls[i].op = "ensure_async" /\ calls[j].op = "ensure_async"
         /\ OnCoro(calls[i]) /\ OnCoro(calls[j]) /\ calls[i].arg = calls[j].arg
         /\ calls[i].own /\ calls[i].res.kind = "return"
         /\ calls[j].cst = "closed")
            => calls[j].res = calls[i].res

C5_NoLoopRunsToCompletion ==
    \A i \in DOMAIN calls :
        LET k == calls[i] IN
        (/\ k.op = "run_sync" /\ OnCoro(k)
         /\ k.pre.loop \in {"none", "closed"}
         /\ k.cst # "closed" /\ BodyOut(k).kind = "return")
            => /\ k.res = BodyOut(k)
               /\ k.own
               /\ k.post.execs[k.arg.id] = body[k.arg.id].steps
               /\ co[k.arg.id].st = "closed"
               /\ k.post.loop = "idle"
               /\ k.post.loopId = k.pre.loopId + 1

C5_Witness ==
    \E i \in DOMAIN calls :
        /\ calls[i].op = "run_sync" /\ OnCoro(calls[i])
        /\ calls[i].pre.loop = "closed" /\ calls[i].cst = "created"
        /\ body[calls[i].arg.id].steps > 1
        /\ calls[i].res = Return(Plain(42))

\* C6: for a plain input both operations return the input itself and leave
\* the loop, its identity, its ready queue, the tasks and the computations
\* as they were.
C6_PlainInputUnchanged ==
    \A i \in DOMAIN calls :
        LET k == calls[i] IN
        (k.done /\ ~isawaitable(k.arg)) => (k.res = Return(k.arg) /\ k.post = k.pre)

C6_Witness ==
    \E i, j, m \in DOMAIN calls :
        /\ calls[i].op = "run_sync" /\ calls[i].arg = Plain(42)
        /\ calls[i].pre.loop = "closed" /\ calls[i].done
        /\ calls[j].op = "run_sync" /\ calls[j].arg = Plain(7)
        /\ calls[j].pre.loop = "running" /\ calls[j].done
        /\ calls[m].op = "ensure_async" /\ ~isawaitable(calls[m].arg) /\ calls[m].done

\* C7: under a fairly running loop, a handle returned pending by a reentrant
\* run_sync is eventually done, carrying the body's outcome when no other
\* call drives the same coroutine, unless its loop stops running.
TaskAt(t) == IF t \in DOMAIN tasks THEN tasks[t] ELSE create_task(World, 0)
HandleOf(t) ==
    \E i \in DOMAIN calls : Reentrant(calls[i]) /\ calls[i].res = Return(TaskH(t))
Sole(t) == Cardinality({i \in DOMAIN calls : calls[i].arg = Coro(TaskAt(t).coro)}) = 1
PendingHandle(t) == HandleOf(t) /\ TaskAt(t).state = "pending"
Completed(t) ==
    /\ TaskAt(t).state = "done"
    /\ TaskAt(t).res = body[TaskAt(t).coro].out
LoopKeptRunning(t) == loop = "running" /\ loopId = TaskAt(t).loop

C10_HandleOnlyForCompleted ==
    \A i \in DOMAIN calls :
        LET k == calls[i] IN
        (k.op = "ensure_async" /\ OnCoro(k)) =>
            /\ k.res = Return(k.arg) => ~k.own
            /\ (k.own /\ BodyOut(k).kind = "raise") => k.res = BodyOut(k)

\* duplicate separators removed
RECURSIVE Squeeze(_)
Squeeze(s) ==
    IF Len(s) < 2 THEN s
    ELSE IF s[1] = Sep /\ s[2] = Sep THEN Squeeze(Tail(s))
    ELSE <<s[1]>> \o Squeeze(Tail(s))

\* a root that is not empty and has no duplicate and no trailing separator
CleanRoot(r) == r # <<>> /\ Squeeze(r) = r /\ r[Len(r)] # Sep
\* q is root, or lies below root: root, a separator, a remainder
Under(q, r) == q = r \/ startswith(q, r \o <<Sep>>)
RoundTrip == pm.stage = 2

\* C8 (as claimed): for every root, to_api_path(to_os_path(p)) is p without
\* leading, trailing and duplicate "/", and to_os_path(to_api_path(q)) is q
\* without duplicate separators, for every q.
C8_StrictInversePair ==
    RoundTrip =>
        /\ pm.dir = "api" => pm.back = strip(Squeeze(pm.orig), "/")
        /\ pm.dir = "os" => pm.back = Squeeze(pm.orig)

\* C8 (amended): the first round trip as claimed; the second for a clean root
\* and a q that is root or lies below it, up to duplicate and trailing
\* separators.
C8_InversePairUnderRoot ==
    RoundTrip =>
        /\ pm.dir = "api" => pm.back = strip(Squeeze(pm.orig), "/")
        /\ (pm.dir = "os" /\ CleanRoot(pm.root) /\ Under(pm.orig, pm.root))
              => pm.back = rstrip(Squeeze(pm.orig), Sep)

C8_Witness ==
    /\ RoundTrip /\ pm.dir = "os"
    /\ CleanRoot(pm.root) /\ Under(pm.orig, pm.root)
    /\ Squeeze(pm.orig) # pm.orig
    /\ pm.mid # <<>>
    /\ pm.back # pm.orig

Warn == dep.behavior = "warn"
NamesTheReplacement(m) ==
    /\ dep.alt_func # None => \E k \in DOMAIN m : m[k] = dep.alt_func[1]
    /\ dep.removed_version # None => \E k \in DOMAIN m : m[k] = dep.removed_version[1]
ReturnsLikeFunc ==
    \A k \in DOMAIN dep.rets : dep.rets[k].res = Return(Plain(func(dep.rets[k].arg)))

\* C9 (as claimed): in warn mode the warning is emitted one time only over
\* any sequence of invocations and every invocation returns what the callable
\* returns; in raise mode every invocation raises the deprecation error.
C9_WarnsOnce ==
    /\ Warn =>
          /\ Len(dep.shown) = (IF dep.rets = <<>> THEN 0 ELSE 1)
          /\ \A k \in DOMAIN dep.shown : NamesTheReplacement(dep.shown[k])
          /\ ReturnsLikeFunc
    /\ dep.behavior = "raise" =>
          \A k \in DOMAIN dep.rets :
              /\ dep.rets[k].res.kind = "raise"
              /\ dep.rets[k].res.err.cls = "DeprecationWarning"

\* C9 (amended): in warn mode the warning is emitted once per invocation,
\* whatever filters the application has set, names the replacement and the
\* removal version when given, and every invocation returns what the callable
\* returns; in raise mode every invocation raises the deprecation error and
\* the callable is not run.
C9_WarnsEveryInvocation ==
    /\ Warn =>
          /\ Len(dep.shown) = Len(dep.rets)
          /\ dep.ncalled = Len(dep.rets)
          /\ \A k \in DOMAIN dep.shown : NamesTheReplacement(dep.shown[k])
          /\ ReturnsLikeFunc
    /\ dep.behavior = "raise" =>
          /\ dep.ncalled = 0 /\ dep.shown = <<>>
          /\ \A k \in DOMAIN dep.rets :
                /\ dep.rets[k].res.kind = "raise"
                /\ dep.rets[k].res.err.cls = "DeprecationWarning"
                /\ NamesTheReplacement(dep.rets[k].res.err.msg)

C9_Witness ==
    /\ Warn /\ Len(dep.rets) >= 2 /\ Len(dep.shown) >= 2
    /\ dep.alt_func # None /\ dep.removed_version # None
    /\ \E k \in DOMAIN dep.filters : dep.filters[k] = "ignore"
    /\ dep.rets[1].arg # dep.rets[2].arg

====
